---- MODULE Spec2Model ----
(***************************************************************************)
(* Model of github.com/oissevalt/opzione: the Option container             *)
(* (src/option.go, src/opzione.go), the Chained container                  *)
(* (src/unnamed/part_000) and the Simple container (src/unnamed/part_006), *)
(* together with the reflection-based nil detector they share.             *)
(*                                                                         *)
(* A Go value is a record [dt, x]: dt is its dynamic type (for a value of  *)
(* a non-interface static type, that type; for an interface value, the     *)
(* type of what it holds, or "nil" for the nil interface) and x its        *)
(* payload: a number for int, 0 (nil) or 1 for slice/map/func, 0 (nil) or   *)
(* the identity (1, 2) of a channel, 0                                     *)
(* (nil) or an address for pointers, and for the struct type (one field, a *)
(* *int) the content of that field.                                        *)
(***************************************************************************)
EXTENDS Integers, FiniteSets, Sequences, TLC

\* Largest int payload used for caller data.
MaxInt == 1
\* Number of storage cells the container's `v *T` can point to.  A cell is
\* reclaimed as soon as nothing refers to it, so three cells are always enough
\* (the Assign alias, the Take result, and the cell the slot points to).
NCells == 3
\* Number of goroutines that call Take on the same Option at once.
NThreads == 2
\* Number of isnil calls of one walk that are counted; the counter stops there.
MaxCalls == 5

VARIABLES
    T,       \* the type parameter of the container
    impl,    \* which container type is under test: "Option", "Chained", "Simple"
    built,   \* a constructor has returned a container
    c,       \* the container's fields: v (cell id, 0 = nil), ptrtyp, track, validfn
    cells,   \* the storage cells `v` may point to (each holds a T)
    heap,    \* the caller's variables: address -> value
    ap,      \* the pointer the caller received through Assign (0 = nil)
    tp,      \* the pointer the caller received from Take (0 = nil)
    ret,     \* the last operation and what it returned
    thr,     \* the goroutines inside a concurrent Take: where each one is (pc),
             \* the slot pointer it read (p) and how its call ended (st)
    walk,    \* a run of the detector, call by call: st ("idle", "run", or the
             \* result "true" / "false"), the reflect.Value the current call
             \* examines (cur), and the number of isnil calls made so far
    hist     \* bookkeeping for the properties: which constructor built the
             \* container (origin), how the slot came to its present state (slot:
             \* "none" built empty, "taken" emptied by Take, "filled" by Some or
             \* Swap), whether only queries were called since construction (quiet),
             \* and whether a Take was refused on a filled slot with no validator
             \* installed (refused)

vars == <<T, impl, built, c, cells, heap, ap, tp, ret, thr, walk, hist>>

----------------------------------------------------------------------------
\* Types and values

ValueTypes == {"int", "slice", "struct"}
LeafRefTypes == {"map", "chan", "func"}
PointerTypes == {"*int", "**int", "***int", "*map", "*any", "*slice", "*struct"}
\* pointers to a value type
SinglePointerTypes == {"*int", "*slice", "*struct"}
Types == ValueTypes \cup LeafRefTypes \cup PointerTypes \cup {"any", "unsafe"}
Impls == {"Option", "Chained", "Simple"}

\* reflect.Kind of a type
Kind(t) ==
    CASE t = "int" -> "Int"
      [] t = "slice" -> "Slice"
      [] t = "struct" -> "Struct"
      [] t = "map" -> "Map"
      [] t = "chan" -> "Chan"
      [] t = "func" -> "Func"
      [] t = "any" -> "Interface"
      [] t = "unsafe" -> "UnsafePointer"
      [] t \in PointerTypes -> "Pointer"
      [] t = "P" -> "Pointer"
      [] OTHER -> "Invalid"

\* element type of a pointer type
ElemT(t) ==
    CASE t = "*int" -> "int"
      [] t = "**int" -> "*int"
      [] t = "***int" -> "**int"
      [] t = "*map" -> "map"
      [] t = "*any" -> "any"
      [] t = "*slice" -> "slice"
      [] t = "*struct" -> "struct"
      [] t = "P" -> "P"
      [] OTHER -> "invalid"

\* The caller's variables: a (int), p (*int), pp (**int), m (map), i (any),
\* s (slice), st (struct with a *int field), r (of the recursive pointer type
\* `type P *P`, which can point to itself).
Addrs == 1..8
CellType(a) ==
    CASE a = 1 -> "int"
      [] a = 2 -> "*int"
      [] a = 3 -> "**int"
      [] a = 4 -> "map"
      [] a = 5 -> "any"
      [] a = 6 -> "slice"
      [] a = 7 -> "struct"
      [] a = 8 -> "P"

\* the variable a non-nil pointer of type t points to
Target(t) == CHOOSE a \in Addrs : CellType(a) = ElemT(t)

Val(t, n) == [dt |-> t, x |-> n]
NilIface == [dt |-> "nil", x |-> 0]

\* the values a variable of a non-interface type t can hold
Concrete(t) ==
    CASE t = "int" -> {Val(t, n) : n \in 0..MaxInt}
      [] t = "chan" -> {Val(t, 0), Val(t, 1), Val(t, 2)}
      [] t \in {"slice", "map", "func", "unsafe", "struct"} -> {Val(t, 0), Val(t, 1)}
      [] t \in PointerTypes \cup {"P"} -> {Val(t, 0), Val(t, Target(t))}

\* the dynamic types an interface value holds in this model
DynTypes == {"int", "*int"}

ValuesOf(t) ==
    IF t = "any"
    THEN {NilIface} \cup UNION {Concrete(d) : d \in DynTypes}
    ELSE Concrete(t)

\* var t T
Zero(t) == IF t = "any" THEN NilIface ELSE Val(t, 0)

\* the caller's variables that code holding a T can reach and overwrite
Reach(t) ==
    CASE t = "*int" -> {1}
      [] t = "**int" -> {2}
      [] t = "***int" -> {2, 3}
      [] t = "*map" -> {4}
      [] t = "*any" -> {5}
      [] t = "*slice" -> {6}
      [] t = "*struct" -> {7}
      [] t = "unsafe" -> {1}   \* unsafe.Pointer(&a)
      [] OTHER -> {}

----------------------------------------------------------------------------
\* package reflect, as far as the library uses it

InvalidRV == [valid |-> FALSE, typ |-> "invalid", v |-> NilIface]
RV(t, v) == [valid |-> TRUE, typ |-> t, v |-> v]

\* reflect.ValueOf(v): v is converted to interface{} first, so an interface
\* value is replaced by what it holds and the nil interface gives the zero Value.
ValueOf(v) == IF v.dt = "nil" THEN InvalidRV ELSE RV(v.dt, v)

\* Value.Kind()
KindOf(val) == IF val.valid THEN Kind(val.typ) ELSE "Invalid"

\* Value.Elem() of a Pointer: the zero Value for a nil pointer, else the
\* pointed-to variable with its static type (Kind Interface for an `any`).
ElemRV(val, h) ==
    IF val.v.x = 0 THEN InvalidRV ELSE RV(ElemT(val.typ), h[val.v.x])

\* Value.IsNil() panics unless the kind is Chan, Func, Interface, Map, Pointer,
\* Slice or UnsafePointer.
IsNilPanics(val) ==
    KindOf(val) \notin {"Chan", "Func", "Interface", "Map", "Pointer", "Slice", "UnsafePointer"}

\* IsNil with the comparison inverted
IsNilRV_inverted(val) ==
    IF KindOf(val) = "Interface" THEN val.v.dt # "nil" ELSE val.v.x # 0

IsNilRV(val) ==
    IF KindOf(val) = "Interface" THEN val.v.dt = "nil" ELSE val.v.x = 0

----------------------------------------------------------------------------
\* option.go: the nil detector and the classifier

\* isptrkind with slices counted among the pointer-like kinds
isptrkind_slice(kind) ==
    kind \in {"UnsafePointer", "Pointer", "Func", "Map", "Chan", "Interface", "Slice"}

isptrkind(kind) ==
    kind \in {"UnsafePointer", "Pointer", "Func", "Map", "Chan", "Interface"}

\* isptr panics on an invalid Value ("cannot determine t; invalid value detected")
isptrPanics(v) == ~ValueOf(v).valid
\* isptr that takes every valid value for a pointer
isptr_always(v) == TRUE

isptr(v) == isptrkind(KindOf(ValueOf(v)))

\* isnil without the recursion into the pointed-to variable
isnil_shallow(val, h) ==
    IF ~val.valid THEN TRUE
    ELSE CASE KindOf(val) = "UnsafePointer" -> val.v.x = 0
           [] KindOf(val) = "Pointer" -> ~ElemRV(val, h).valid
           [] KindOf(val) \in {"Func", "Map", "Chan", "Interface"} -> IsNilRV(val)
           [] OTHER -> FALSE

\* isnil with a nil slice treated like a nil map
RECURSIVE isnil_nilslice(_, _)
isnil_nilslice(val, h) ==
    IF ~val.valid THEN TRUE
    ELSE CASE KindOf(val) = "UnsafePointer" -> val.v.x = 0
           [] KindOf(val) = "Pointer" ->
                LET elem == ElemRV(val, h)
                IN  IF ~elem.valid THEN TRUE ELSE isnil_nilslice(elem, h)
           [] KindOf(val) \in {"Func", "Map", "Chan", "Interface", "Slice"} -> IsNilRV(val)
           [] OTHER -> FALSE

\* isnil that follows pointers but never asks a map, channel or function
RECURSIVE isnil_pointersonly(_, _)
isnil_pointersonly(val, h) ==
    IF ~val.valid THEN TRUE
    ELSE CASE KindOf(val) = "UnsafePointer" -> val.v.x = 0
           [] KindOf(val) = "Pointer" ->
                LET elem == ElemRV(val, h)
                IN  IF ~elem.valid THEN TRUE ELSE isnil_pointersonly(elem, h)
           [] KindOf(val) = "Interface" -> IsNilRV(val)
           [] OTHER -> FALSE

\* isnil that reads the variable an unsafe pointer points to, and reports
\* nil when that variable holds zero
RECURSIVE isnil_intounsafe(_, _)
isnil_intounsafe(val, h) ==
    IF ~val.valid THEN TRUE
    ELSE CASE KindOf(val) = "UnsafePointer" -> val.v.x = 0 \/ h[val.v.x].x = 0
           [] KindOf(val) = "Pointer" ->
                LET elem == ElemRV(val, h)
                IN  IF ~elem.valid THEN TRUE ELSE isnil_intounsafe(elem, h)
           [] KindOf(val) \in {"Func", "Map", "Chan", "Interface"} -> IsNilRV(val)
           [] KindOf(val) = "Slice" -> FALSE
           [] OTHER -> FALSE

RECURSIVE isnil(_, _)
isnil(val, h) ==
    IF ~val.valid THEN TRUE
    ELSE CASE KindOf(val) = "UnsafePointer" -> val.v.x = 0
           [] KindOf(val) = "Pointer" ->
                LET elem == ElemRV(val, h)
                IN  IF ~elem.valid THEN TRUE ELSE isnil(elem, h)
           [] KindOf(val) \in {"Func", "Map", "Chan", "Interface"} -> IsNilRV(val)
           [] KindOf(val) = "Slice" -> FALSE
           [] OTHER -> FALSE

\* opzione.go, Some: panics in isptr on the nil interface, and on a reference
\* the detector finds nil.
SomePanics(v, h) ==
    isptrPanics(v) \/ (isptr(v) /\ isnil(ValueOf(v), h))

\* The ptrtyp and track fields Some gives the Option.
SomeFields(v, h) ==
    LET val == ValueOf(v)
    IN  IF isptr(v)
        THEN CASE KindOf(val) = "UnsafePointer" -> [ptrtyp |-> TRUE, track |-> FALSE]
               [] KindOf(val) \in {"Pointer", "Interface"} ->
                    [ptrtyp |-> TRUE, track |-> isptrkind(KindOf(ElemRV(val, h)))]
               [] OTHER -> [ptrtyp |-> TRUE, track |-> TRUE]
        ELSE [ptrtyp |-> FALSE, track |-> FALSE]

\* opzione.go, None: classifies `var t T`; isptr panics when T is an interface
\* type, whose zero value reflect cannot inspect.
NonePanics(t, h) == isptrPanics(Zero(t))

NoneFields(t, h) ==
    LET val == ValueOf(Zero(t))
    IN  IF isptr(Zero(t))
        THEN CASE KindOf(val) = "UnsafePointer" -> [ptrtyp |-> TRUE, track |-> FALSE]
               [] KindOf(val) \in {"Pointer", "Interface"} ->
                    [ptrtyp |-> TRUE, track |-> isptrkind(KindOf(ElemRV(val, h)))]
               [] OTHER -> [ptrtyp |-> TRUE, track |-> TRUE]
        ELSE [ptrtyp |-> FALSE, track |-> FALSE]

\* part_000, ChainedSome / ChainedNone: the same code as Some / None.
ChainedSomePanics(v, h) ==
    isptrPanics(v) \/ (isptr(v) /\ isnil(ValueOf(v), h))

ChainedSomeFields(v, h) ==
    LET val == ValueOf(v)
    IN  IF isptr(v)
        THEN CASE KindOf(val) = "UnsafePointer" -> [ptrtyp |-> TRUE, track |-> FALSE]
               [] KindOf(val) \in {"Pointer", "Interface"} ->
                    [ptrtyp |-> TRUE, track |-> isptrkind(KindOf(ElemRV(val, h)))]
               [] OTHER -> [ptrtyp |-> TRUE, track |-> TRUE]
        ELSE [ptrtyp |-> FALSE, track |-> FALSE]

ChainedNonePanics(t, h) == isptrPanics(Zero(t))

ChainedNoneFields(t, h) ==
    LET val == ValueOf(Zero(t))
    IN  IF isptr(Zero(t))
        THEN CASE KindOf(val) = "UnsafePointer" -> [ptrtyp |-> TRUE, track |-> FALSE]
               [] KindOf(val) \in {"Pointer", "Interface"} ->
                    [ptrtyp |-> TRUE, track |-> isptrkind(KindOf(ElemRV(val, h)))]
               [] OTHER -> [ptrtyp |-> TRUE, track |-> TRUE]
        ELSE [ptrtyp |-> FALSE, track |-> FALSE]

\* SimpleSome that accepts nil references
SimpleSomePanics_lenient(v, h) == isptrPanics(v)

\* part_006, SimpleSome: panics on a nil reference of any pointer-like kind;
\* Simple has no track field.
SimpleSomePanics(v, h) ==
    isptrPanics(v) \/ (isptr(v) /\ IsNilRV(ValueOf(v)))

SimpleSomeFields(v, h) == [ptrtyp |-> isptr(v), track |-> FALSE]

SimpleNonePanics(t, h) == isptrPanics(Zero(t))

SimpleNoneFields(t, h) == [ptrtyp |-> isptr(Zero(t)), track |-> FALSE]

----------------------------------------------------------------------------
\* Validators a caller may install with Validate (f returns true = "none").

Validators == {"always", "zero"}

ApplyValid(f, v) ==
    CASE f = "always" -> TRUE
      [] f = "zero" -> v.x = 0

----------------------------------------------------------------------------
\* IsNone.  The verdict is "true", "false", or "panic" when reflect panics.

\* Option.IsNone that also looks at the variable a stored pointer points to,
\* and reports none when that variable holds nil or zero
OptionIsNone_pointee(o, cs, h) ==
    IF o.v = 0 THEN "true"
    ELSE LET val == ValueOf(cs[o.v])
         IN  IF o.ptrtyp /\ IsNilPanics(val) THEN "panic"
             ELSE LET ok == IF o.ptrtyp
                            THEN \/ IsNilRV(val)
                                 \/ (KindOf(val) = "Pointer" /\ h[val.v.x].x = 0)
                            ELSE FALSE
                  IN  IF ok THEN "true"
                      ELSE IF o.validfn # "nil"
                           THEN (IF ApplyValid(o.validfn, cs[o.v]) THEN "true" ELSE "false")
                           ELSE "false"

\* Option.IsNone that never consults the validator
OptionIsNone_novalidator(o, cs, h) ==
    IF o.v = 0 THEN "true"
    ELSE LET val == ValueOf(cs[o.v])
         IN  IF o.ptrtyp /\ IsNilPanics(val) THEN "panic"
             ELSE IF o.ptrtyp /\ IsNilRV(val) THEN "true" ELSE "false"

\* option.go, Option.IsNone.  The result of isnil(val) assigned under
\* `if o.track` is overwritten by the unconditional `ok = val.IsNil()`.
OptionIsNone(o, cs, h) ==
    IF o.v = 0 THEN "true"
    ELSE LET val == ValueOf(cs[o.v])
             tracked == IF o.track THEN isnil(val, h) ELSE FALSE
         IN  IF o.ptrtyp /\ IsNilPanics(val) THEN "panic"
             ELSE LET ok == IF o.ptrtyp THEN IsNilRV(val) ELSE FALSE
                  IN  IF ok THEN "true"
                      ELSE IF o.validfn # "nil"
                           THEN (IF ApplyValid(o.validfn, cs[o.v]) THEN "true" ELSE "false")
                           ELSE "false"

\* option.go, Option.IsNone, `return o.validfn(*o.v)`: the validator is
\* called when the slot is filled, the reflect checks did not panic and did
\* not say nil, and a validator is installed.
ValidfnCalled(o, cs, h) ==
    /\ o.v # 0
    /\ ~(o.ptrtyp /\ IsNilPanics(ValueOf(cs[o.v])))
    /\ ~(o.ptrtyp /\ IsNilRV(ValueOf(cs[o.v])))
    /\ o.validfn # "nil"

\* Chained.IsNone that asks only val.IsNil(), whatever track says
ChainedIsNone_untracked(o, cs, h) ==
    IF o.v = 0 THEN "true"
    ELSE IF o.ptrtyp
         THEN LET val == ValueOf(cs[o.v])
              IN  IF IsNilPanics(val) THEN "panic"
                  ELSE IF IsNilRV(val) THEN "true" ELSE "false"
         ELSE "false"

\* part_000, Chained.IsNone
ChainedIsNone(o, cs, h) ==
    IF o.v = 0 THEN "true"
    ELSE IF o.ptrtyp
         THEN LET val == ValueOf(cs[o.v])
              IN  IF o.track
                  THEN (IF isnil(val, h) THEN "true" ELSE "false")
                  ELSE IF IsNilPanics(val) THEN "panic"
                       ELSE IF IsNilRV(val) THEN "true" ELSE "false"
         ELSE "false"

\* Simple.IsNone that runs the recursive detector on the stored value
SimpleIsNone_deep(o, cs, h) ==
    IF o.v = 0 THEN "true"
    ELSE IF o.ptrtyp
         THEN (IF isnil(ValueOf(cs[o.v]), h) THEN "true" ELSE "false")
         ELSE "false"

\* part_006, Simple.IsNone
SimpleIsNone(o, cs, h) ==
    IF o.v = 0 THEN "true"
    ELSE IF o.ptrtyp
         THEN LET val == ValueOf(cs[o.v])
              IN  IF IsNilPanics(val) THEN "panic"
                  ELSE IF IsNilRV(val) THEN "true" ELSE "false"
         ELSE "false"

IsNoneOf(im, o, cs, h) ==
    CASE im = "Option" -> OptionIsNone(o, cs, h)
      [] im = "Chained" -> ChainedIsNone(o, cs, h)
      [] im = "Simple" -> SimpleIsNone(o, cs, h)

\* the verdict in the current state
IsNone == IsNoneOf(impl, c, cells, heap)

----------------------------------------------------------------------------
\* State

\* The last call: its name, the container's verdict when it was made, how it
\* ended ("ok", "err" for ErrNoneOptional returned, "panic"), the bool, value
\* and pointer it returned, and its argument.
Ret(op, st, msg, b, val, p) ==
    [op |-> op, was |-> IF built THEN IsNoneOf(impl, c, cells, heap) ELSE "-",
     st |-> st, msg |-> msg, b |-> b, val |-> val, p |-> p, arg |-> Zero(T)]

\* a collector that also reclaims the cells still referred to
Collect_all(cs, refs) ==
    [k \in 1..NCells |-> Zero(T)]

\* Storage cells nothing refers to any more are reclaimed.
Collect(cs, refs) ==
    [k \in 1..NCells |-> IF k \in refs THEN cs[k] ELSE Zero(T)]

\* `&v`: the storage of the parameter v escapes to a fresh cell, one that no
\* pointer the program still holds refers to.
NewCell(refs) ==
    CHOOSE k \in 1..NCells : k \notin refs /\ \A j \in 1..NCells : j \notin refs => k <= j

InitHeap ==
    [a \in Addrs |->
        CASE a = 1 -> Val("int", 1)
          [] a = 2 -> Val("*int", 1)
          [] a = 3 -> Val("**int", 2)
          [] a = 4 -> Val("map", 1)
          [] a = 5 -> Val("*int", 1)
          [] a = 6 -> Val("slice", 0)
          [] a = 7 -> Val("struct", 1)
          [] a = 8 -> Val("P", 0)]

Threads == 1..NThreads

\* The state before a constructor is called, for a container type among impls
\* and a type parameter among types.
InitFor(impls, types) ==
    /\ T \in types
    /\ impl \in impls
    /\ built = FALSE
    /\ c = [v |-> 0, ptrtyp |-> FALSE, track |-> FALSE, validfn |-> "nil"]
    /\ cells = [k \in 1..NCells |-> Zero(T)]
    /\ heap = InitHeap
    /\ ap = 0
    /\ tp = 0
    /\ ret = [op |-> "init", was |-> "-", st |-> "ok", msg |-> "", b |-> FALSE,
              val |-> Zero(T), p |-> 0, arg |-> Zero(T)]
    /\ thr = [t \in Threads |-> [pc |-> "idle", p |-> 0, st |-> "-"]]
    /\ walk = [st |-> "idle", cur |-> InvalidRV, calls |-> 0]
    /\ hist = [origin |-> "unbuilt", slot |-> "none", quiet |-> TRUE, refused |-> FALSE]

\* An Option[T], for every T of the model.
Init == InitFor({"Option"}, Types)

\* An Option, Chained or Simple over a slice or a pointer to a slice.
InitSlices == InitFor(Impls, {"slice", "*slice"})

\* An Option, Chained or Simple over a pointer to an int, to a pointer, or to
\* a pointer to a pointer.
InitPointers == InitFor(Impls, {"*int", "**int", "***int"})

\* An Option, Chained or Simple over a map, channel or function, or over a
\* pointer to a map.
InitLeafRefs == InitFor(Impls, LeafRefTypes \cup {"*map"})

\* An Option shared by goroutines that call Take with no lock around it.
InitShared == InitFor({"Option"}, {"int", "**int"})

\* The inputs of the detector: a value of one of the chain types, over every
\* state of the caller's variables on the chain; r may point to itself.
WalkTypes == {"int", "slice", "map", "*int", "**int", "***int", "*map", "P"}

InitWalk ==
    /\ T \in WalkTypes
    /\ impl = "Option"
    /\ built = FALSE
    /\ c = [v |-> 0, ptrtyp |-> FALSE, track |-> FALSE, validfn |-> "nil"]
    /\ cells = [k \in 1..NCells |-> Zero(T)]
    /\ \E p \in ValuesOf("*int") : \E pp \in ValuesOf("**int") :
       \E m \in ValuesOf("map") : \E r \in ValuesOf("P") :
         heap = [InitHeap EXCEPT ![2] = p, ![3] = pp, ![4] = m, ![8] = r]
    /\ ap = 0
    /\ tp = 0
    /\ ret = [op |-> "init", was |-> "-", st |-> "ok", msg |-> "", b |-> FALSE,
              val |-> Zero(T), p |-> 0, arg |-> Zero(T)]
    /\ thr = [t \in Threads |-> [pc |-> "idle", p |-> 0, st |-> "-"]]
    /\ walk = [st |-> "idle", cur |-> InvalidRV, calls |-> 0]
    /\ hist = [origin |-> "unbuilt", slot |-> "none", quiet |-> TRUE, refused |-> FALSE]

\* An Optional[T] variable not yet assigned, for every T of the model.
InitNew == InitFor({"Optional"}, Types)

\* An Option, Chained or Simple over a value type or a pointer to one.
InitPlain == InitFor(Impls, ValueTypes \cup SinglePointerTypes)

----------------------------------------------------------------------------
\* Constructors

CtorSomePanics(im, v, h) ==
    CASE im = "Option" -> SomePanics(v, h)
      [] im = "Chained" -> ChainedSomePanics(v, h)
      [] im = "Simple" -> SimpleSomePanics(v, h)

CtorSomeFields(im, v, h) ==
    CASE im = "Option" -> SomeFields(v, h)
      [] im = "Chained" -> ChainedSomeFields(v, h)
      [] im = "Simple" -> SimpleSomeFields(v, h)

CtorNonePanics(im, t, h) ==
    CASE im = "Option" -> NonePanics(t, h)
      [] im = "Chained" -> ChainedNonePanics(t, h)
      [] im = "Simple" -> SimpleNonePanics(t, h)

CtorNoneFields(im, t, h) ==
    CASE im = "Option" -> NoneFields(t, h)
      [] im = "Chained" -> ChainedNoneFields(t, h)
      [] im = "Simple" -> SimpleNoneFields(t, h)

\* opzione.go, NewOptional: the container type and the constructor it calls.
\* Only a pointer whose element type is again a pointer goes to Chained.
NewOptionalImpl(v, h) ==
    LET val == ValueOf(v)
    IN  IF KindOf(val) # "Pointer"
        THEN IF KindOf(val) \in {"Chan", "Func", "Map", "Interface"}
             THEN (IF IsNilRV(val) THEN [impl |-> "Simple", ctor |-> "None"]
                                   ELSE [impl |-> "Simple", ctor |-> "Some"])
             ELSE [impl |-> "Simple", ctor |-> "Some"]
        ELSE IF Kind(ElemT(val.typ)) = "Pointer"
             THEN (IF val.v.x = 0 \/ isnil(val, h)
                   THEN [impl |-> "Chained", ctor |-> "None"]
                   ELSE [impl |-> "Chained", ctor |-> "Some"])
             ELSE IF val.v.x = 0 THEN [impl |-> "Simple", ctor |-> "None"]
                                 ELSE [impl |-> "Simple", ctor |-> "Some"]

\* NewOptional panics when the constructor it calls does.
NewOptionalPanics(t, v, h) ==
    LET d == NewOptionalImpl(v, h)
    IN  IF d.ctor = "Some" THEN CtorSomePanics(d.impl, v, h)
                           ELSE CtorNonePanics(d.impl, t, h)

NewOptionalFields(t, v, h) ==
    LET d == NewOptionalImpl(v, h)
    IN  IF d.ctor = "Some" THEN CtorSomeFields(d.impl, v, h)
                           ELSE CtorNoneFields(d.impl, t, h)

\* NewOptional(v): the caller's Optional[T] variable receives a Simple or a
\* Chained, built by the Some or the None constructor of that type.
DoNewOptional ==
    /\ ~built
    /\ impl = "Optional"
    /\ \E v \in ValuesOf(T) :
        IF NewOptionalPanics(T, v, heap)
        THEN /\ ret' = [Ret("NewOptional", "panic",
                            IF isptrPanics(v) \/ NewOptionalImpl(v, heap).ctor = "None"
                            THEN "invalid value" ELSE "nil pointer",
                            FALSE, Zero(T), 0) EXCEPT !.arg = v]
             /\ UNCHANGED <<impl, built, c, cells, hist>>
        ELSE LET d == NewOptionalImpl(v, heap)
                 f == NewOptionalFields(T, v, heap)
             IN  /\ impl' = d.impl
                 /\ built' = TRUE
                 /\ c' = [v |-> IF d.ctor = "Some" THEN 1 ELSE 0,
                          ptrtyp |-> f.ptrtyp, track |-> f.track, validfn |-> "nil"]
                 /\ cells' = IF d.ctor = "Some" THEN [cells EXCEPT ![1] = v] ELSE cells
                 /\ ret' = [Ret("NewOptional", "ok", "", FALSE, Zero(T), 0) EXCEPT !.arg = v]
                 /\ hist' = [origin |-> IF d.ctor = "Some" THEN "some" ELSE "none",
                             slot |-> IF d.ctor = "Some" THEN "filled" ELSE "none",
                             quiet |-> TRUE, refused |-> FALSE]
    /\ UNCHANGED <<T, thr, walk, heap, ap, tp>>

\* Some(v) / ChainedSome(v) / SimpleSome(v)
DoSome ==
    /\ ~built
    /\ \E v \in ValuesOf(T) :
        IF CtorSomePanics(impl, v, heap)
        THEN /\ ret' = [Ret("Some", "panic",
                           IF isptrPanics(v) THEN "invalid value" ELSE "nil pointer",
                           FALSE, Zero(T), 0) EXCEPT !.arg = v]
             /\ UNCHANGED <<built, c, cells, hist>>
        ELSE LET f == CtorSomeFields(impl, v, heap)
             IN  /\ built' = TRUE
                 /\ c' = [v |-> 1, ptrtyp |-> f.ptrtyp, track |-> f.track, validfn |-> "nil"]
                 /\ cells' = [cells EXCEPT ![1] = v]
                 /\ ret' = [Ret("Some", "ok", "", FALSE, Zero(T), 0) EXCEPT !.arg = v]
                 /\ hist' = [origin |-> "some", slot |-> "filled", quiet |-> TRUE, refused |-> FALSE]
    /\ UNCHANGED <<T, thr, walk, impl, heap, ap, tp>>

\* None[T]() / ChainedNone[T]() / SimpleNone[T]()
DoNone ==
    /\ ~built
    /\ IF CtorNonePanics(impl, T, heap)
       THEN /\ ret' = Ret("None", "panic", "invalid value", FALSE, Zero(T), 0)
            /\ UNCHANGED <<built, c, hist>>
       ELSE LET f == CtorNoneFields(impl, T, heap)
            IN  /\ built' = TRUE
                /\ c' = [v |-> 0, ptrtyp |-> f.ptrtyp, track |-> f.track, validfn |-> "nil"]
                /\ ret' = Ret("None", "ok", "", FALSE, Zero(T), 0)
                /\ hist' = [origin |-> "none", slot |-> "none", quiet |-> TRUE, refused |-> FALSE]
    /\ UNCHANGED <<T, thr, walk, impl, cells, heap, ap, tp>>

----------------------------------------------------------------------------
\* Queries

\* IsNone()
DoIsNone ==
    /\ built
    /\ ret' = (IF IsNone = "panic"
               THEN Ret("IsNone", "panic", "reflect", FALSE, Zero(T), 0)
               ELSE Ret("IsNone", "ok", "", IsNone = "true", Zero(T), 0))
    /\ UNCHANGED <<T, thr, walk, impl, built, c, cells, heap, ap, tp, hist>>

\* Value(): (t, ErrNoneOptional) when none, (*v, nil) otherwise
DoValue ==
    /\ built
    /\ ret' = (CASE IsNone = "panic" -> Ret("Value", "panic", "reflect", FALSE, Zero(T), 0)
                 [] IsNone = "true" -> Ret("Value", "err", "ErrNoneOptional", FALSE, Zero(T), 0)
                 [] IsNone = "false" -> Ret("Value", "ok", "", FALSE, cells[c.v], 0))
    /\ UNCHANGED <<T, thr, walk, impl, built, c, cells, heap, ap, tp, hist>>

\* Unwrap() (Option) / Must() (Chained, Simple)
DoUnwrap ==
    /\ built
    /\ ret' = (CASE IsNone = "panic" -> Ret("Unwrap", "panic", "reflect", FALSE, Zero(T), 0)
                 [] IsNone = "true" -> Ret("Unwrap", "panic", "ErrNoneOptional", FALSE, Zero(T), 0)
                 [] IsNone = "false" -> Ret("Unwrap", "ok", "", FALSE, cells[c.v], 0))
    /\ UNCHANGED <<T, thr, walk, impl, built, c, cells, heap, ap, tp, hist>>

\* With(f): ret.b tells whether f ran, ret.val what it received
DoWith ==
    /\ built
    /\ ret' = (CASE IsNone = "panic" -> Ret("With", "panic", "reflect", FALSE, Zero(T), 0)
                 [] IsNone = "true" -> Ret("With", "ok", "", FALSE, Zero(T), 0)
                 [] IsNone = "false" -> Ret("With", "ok", "", TRUE, cells[c.v], 0))
    /\ UNCHANGED <<T, thr, walk, impl, built, c, cells, heap, ap, tp, hist>>

\* WithNone(f), Option only: ret.b tells whether f ran
DoWithNone ==
    /\ built
    /\ impl = "Option"
    /\ ret' = (IF IsNone = "panic"
               THEN Ret("WithNone", "panic", "reflect", FALSE, Zero(T), 0)
               ELSE Ret("WithNone", "ok", "", IsNone = "true", Zero(T), 0))
    /\ UNCHANGED <<T, thr, walk, impl, built, c, cells, heap, ap, tp, hist>>

\* Assign(&ap): the caller's pointer is made to point at the container's cell
DoAssign ==
    /\ built
    /\ CASE IsNone = "panic" ->
              /\ ret' = Ret("Assign", "panic", "reflect", FALSE, Zero(T), 0)
              /\ UNCHANGED <<ap, cells>>
         [] IsNone = "true" ->
              /\ ret' = Ret("Assign", "ok", "", FALSE, Zero(T), 0)
              /\ UNCHANGED <<ap, cells>>
         [] IsNone = "false" ->
              /\ ret' = Ret("Assign", "ok", "", TRUE, Zero(T), c.v)
              /\ ap' = c.v
              /\ cells' = Collect(cells, {c.v, c.v, tp})
    /\ UNCHANGED <<T, thr, walk, impl, built, c, heap, tp, hist>>

----------------------------------------------------------------------------
\* Mutators

\* option.go, Option.Validate
DoValidate ==
    /\ built
    /\ impl = "Option"
    /\ \E f \in Validators \cup {"nil"} :
        c' = [c EXCEPT !.validfn = f]
    /\ ret' = Ret("Validate", "ok", "", FALSE, Zero(T), 0)
    /\ hist' = [hist EXCEPT !.quiet = FALSE]
    /\ UNCHANGED <<T, thr, walk, impl, built, cells, heap, ap, tp>>

\* option.go, Option.Swap: `t = *o.v` dereferences the slot pointer without
\* asking IsNone, so it panics when the slot is empty.
OptionSwapPanics(o, cs, h) == o.v = 0
OptionSwapReturn(o, cs, h) == cs[o.v]

\* part_000, Chained.Swap: `if !c.IsNone() { t = *c.v }`
ChainedSwapPanics(o, cs, h) == ChainedIsNone(o, cs, h) = "panic"
ChainedSwapReturn(o, cs, h) ==
    IF ChainedIsNone(o, cs, h) = "false" THEN cs[o.v] ELSE Zero(T)

\* part_006, Simple.Swap: `if !s.IsNone() { t = *s.v }`
SimpleSwapPanics(o, cs, h) == SimpleIsNone(o, cs, h) = "panic"
SimpleSwapReturn(o, cs, h) ==
    IF SimpleIsNone(o, cs, h) = "false" THEN cs[o.v] ELSE Zero(T)

SwapPanics(im, o, cs, h) ==
    CASE im = "Option" -> OptionSwapPanics(o, cs, h)
      [] im = "Chained" -> ChainedSwapPanics(o, cs, h)
      [] im = "Simple" -> SimpleSwapPanics(o, cs, h)

SwapReturn(im, o, cs, h) ==
    CASE im = "Option" -> OptionSwapReturn(o, cs, h)
      [] im = "Chained" -> ChainedSwapReturn(o, cs, h)
      [] im = "Simple" -> SimpleSwapReturn(o, cs, h)

\* Swap(x): returns the old value and installs a fresh cell holding x
DoSwap ==
    /\ built
    /\ \E x \in ValuesOf(T) :
        IF SwapPanics(impl, c, cells, heap)
        THEN /\ ret' = [Ret("Swap", "panic",
                            IF impl = "Option" THEN "nil dereference" ELSE "reflect",
                            FALSE, Zero(T), 0) EXCEPT !.arg = x]
             /\ UNCHANGED <<c, cells, hist>>
        ELSE LET k == NewCell({ap, tp})
             IN  /\ ret' = [Ret("Swap", "ok", "", FALSE,
                                SwapReturn(impl, c, cells, heap), 0) EXCEPT !.arg = x]
                 /\ c' = [c EXCEPT !.v = k]
                 /\ cells' = Collect([cells EXCEPT ![k] = x], {k, ap, tp})
                 /\ hist' = [hist EXCEPT !.slot = "filled", !.quiet = FALSE]
    /\ UNCHANGED <<T, thr, walk, impl, built, heap, ap, tp>>

\* Take(): (nil, ErrNoneOptional) when none; else the slot pointer is handed
\* to the caller and the slot set to nil.
\* Take that clears the slot before asking IsNone
TakeFields_always(o, none) == [o EXCEPT !.v = 0]

\* Take that hands the pointer out but forgets `o.v = nil`
TakeFields_keep(o, none) == o

\* Take that also clears the classification of the emptied Option
TakeFields_reset(o, none) ==
    IF none = "false" THEN [o EXCEPT !.v = 0, !.ptrtyp = FALSE, !.track = FALSE] ELSE o

\* The fields after Take: `o.v = nil` is reached only past the IsNone check.
TakeFields(o, none) == IF none = "false" THEN [o EXCEPT !.v = 0] ELSE o

DoTake ==
    /\ built
    /\ CASE IsNone = "panic" ->
              /\ ret' = Ret("Take", "panic", "reflect", FALSE, Zero(T), 0)
              /\ UNCHANGED <<c, cells, tp, hist>>
         [] IsNone = "true" ->
              /\ ret' = Ret("Take", "err", "ErrNoneOptional", FALSE, Zero(T), 0)
              /\ c' = TakeFields(c, IsNone)
              /\ cells' = Collect(cells, {ap, tp, c'.v})
              /\ hist' = [hist EXCEPT !.refused = (hist.refused \/ (c.v # 0 /\ c.validfn = "nil"))]
              /\ UNCHANGED tp
         [] IsNone = "false" ->
              /\ ret' = Ret("Take", "ok", "", FALSE, Zero(T), c.v)
              /\ tp' = c.v
              /\ c' = TakeFields(c, IsNone)
              /\ cells' = Collect(cells, {ap, c.v})
              /\ hist' = [hist EXCEPT !.slot = "taken", !.quiet = FALSE]
    /\ UNCHANGED <<T, thr, walk, impl, built, heap, ap>>

----------------------------------------------------------------------------
\* option.go, Option.Take, statement by statement, as goroutine t runs it
\* while others run it too.  The Option has no lock, so the statements of
\* different goroutines interleave.

\* the pointer `p := o.v` copies a slot pointer shifted by one cell
TakeReadPtr_shifted(o) == IF o.v = 0 THEN 0 ELSE (o.v % NCells) + 1

\* `p := o.v`
TakeReadPtr(o) == o.v

\* `if o.IsNone() { return nil, ErrNoneOptional }`
TakeCheck ==
    /\ built
    /\ impl = "Option"
    /\ \E t \in Threads :
        /\ thr[t].pc = "idle"
        /\ thr' = [thr EXCEPT ![t] =
                     CASE IsNone = "panic" -> [pc |-> "done", p |-> 0, st |-> "panic"]
                       [] IsNone = "true" -> [pc |-> "done", p |-> 0, st |-> "err"]
                       [] IsNone = "false" -> [pc |-> "checked", p |-> 0, st |-> "-"]]
    /\ UNCHANGED <<T, walk, impl, built, c, cells, heap, ap, tp, ret, hist>>

\* `p := o.v`
TakeRead ==
    /\ \E t \in Threads :
        /\ thr[t].pc = "checked"
        /\ thr' = [thr EXCEPT ![t] = [pc |-> "read", p |-> TakeReadPtr(c), st |-> "-"]]
    /\ UNCHANGED <<T, walk, impl, built, c, cells, heap, ap, tp, ret, hist>>

\* `o.v = nil; return p, nil`
TakeClear ==
    /\ \E t \in Threads :
        /\ thr[t].pc = "read"
        /\ thr' = [thr EXCEPT ![t] = [pc |-> "done", p |-> thr[t].p, st |-> "ok"]]
    /\ c' = [c EXCEPT !.v = 0]
    /\ hist' = [hist EXCEPT !.slot = "taken", !.quiet = FALSE]
    /\ UNCHANGED <<T, walk, impl, built, cells, heap, ap, tp, ret>>

----------------------------------------------------------------------------
\* option.go, isnil, one call at a time.

\* a call of isnil that calls itself on the same pointer again instead of on
\* what it points to
IsNilCall_same(val, h) ==
    IF ~val.valid THEN [st |-> "true", cur |-> val]
    ELSE CASE KindOf(val) = "UnsafePointer" ->
                [st |-> IF val.v.x = 0 THEN "true" ELSE "false", cur |-> val]
           [] KindOf(val) = "Pointer" ->
                IF ~ElemRV(val, h).valid
                THEN [st |-> "true", cur |-> val]
                ELSE [st |-> "run", cur |-> val]
           [] KindOf(val) \in {"Func", "Map", "Chan", "Interface"} ->
                [st |-> IF IsNilRV(val) THEN "true" ELSE "false", cur |-> val]
           [] OTHER -> [st |-> "false", cur |-> val]

\* What one call of isnil(val) does: it returns true or false, or it calls
\* isnil(elem) on the variable val points to ("run", with that variable as
\* the next call's argument).
IsNilCall(val, h) ==
    IF ~val.valid THEN [st |-> "true", cur |-> val]
    ELSE CASE KindOf(val) = "UnsafePointer" ->
                [st |-> IF val.v.x = 0 THEN "true" ELSE "false", cur |-> val]
           [] KindOf(val) = "Pointer" ->
                IF ~ElemRV(val, h).valid
                THEN [st |-> "true", cur |-> val]
                ELSE [st |-> "run", cur |-> ElemRV(val, h)]
           [] KindOf(val) \in {"Func", "Map", "Chan", "Interface"} ->
                [st |-> IF IsNilRV(val) THEN "true" ELSE "false", cur |-> val]
           [] OTHER -> [st |-> "false", cur |-> val]

\* the caller invokes isnil(reflect.ValueOf(v))
WalkStart ==
    /\ walk.st = "idle"
    /\ \E v \in ValuesOf(T) :
        /\ walk' = [st |-> "run", cur |-> ValueOf(v), calls |-> 1]
        /\ ret' = [Ret("isnil", "ok", "", FALSE, Zero(T), 0) EXCEPT !.arg = v]
    /\ UNCHANGED <<T, thr, impl, built, c, cells, heap, ap, tp, hist>>

\* the current call runs: it returns, or makes the recursive call
WalkStep ==
    /\ walk.st = "run"
    /\ LET r == IsNilCall(walk.cur, heap)
       IN  walk' = [st |-> r.st, cur |-> r.cur,
                    calls |-> IF r.st = "run" /\ walk.calls < MaxCalls
                              THEN walk.calls + 1 ELSE walk.calls]
    /\ UNCHANGED <<T, thr, impl, built, c, cells, heap, ap, tp, ret, hist>>

\* the result reaches the caller
WalkReturn ==
    /\ walk.st \in {"true", "false"}
    /\ walk' = [st |-> "idle", cur |-> InvalidRV, calls |-> 0]
    /\ ret' = [Ret("isnil", "ok", "", walk.st = "true", Zero(T), 0) EXCEPT !.arg = ret.arg]
    /\ UNCHANGED <<T, thr, impl, built, c, cells, heap, ap, tp, hist>>

----------------------------------------------------------------------------
\* The caller's own code

\* an assignment to one of the caller's variables, e.g. p = nil
ExtWrite ==
    /\ \E a \in Reach(T) : \E w \in ValuesOf(CellType(a)) :
        /\ heap[a] # w
        /\ heap' = [heap EXCEPT ![a] = w]
    /\ ret' = Ret("ext", "ok", "", FALSE, Zero(T), 0)
    /\ UNCHANGED <<T, thr, walk, impl, built, c, cells, ap, tp, hist>>

\* *ap = w, through the pointer received from Assign
WriteAssigned ==
    /\ ap # 0
    /\ \E w \in ValuesOf(T) :
        /\ cells[ap] # w
        /\ cells' = [cells EXCEPT ![ap] = w]
    /\ ret' = Ret("alias", "ok", "", FALSE, Zero(T), 0)
    /\ hist' = [hist EXCEPT !.quiet = (hist.quiet /\ ap # c.v)]
    /\ UNCHANGED <<T, thr, walk, impl, built, c, heap, ap, tp>>

\* *tp = w, through the pointer received from Take
WriteTaken ==
    /\ tp # 0
    /\ \E w \in ValuesOf(T) :
        /\ cells[tp] # w
        /\ cells' = [cells EXCEPT ![tp] = w]
    /\ ret' = Ret("taken", "ok", "", FALSE, Zero(T), 0)
    /\ hist' = [hist EXCEPT !.quiet = (hist.quiet /\ tp # c.v)]
    /\ UNCHANGED <<T, thr, walk, impl, built, c, heap, ap, tp>>

Next ==
    \/ DoSome
    \/ DoNone
    \/ DoIsNone
    \/ DoValue
    \/ DoUnwrap
    \/ DoWith
    \/ DoWithNone
    \/ DoAssign
    \/ DoValidate
    \/ DoSwap
    \/ DoTake
    \/ ExtWrite
    \/ WriteAssigned
    \/ WriteTaken

Spec == Init /\ [][Next]_vars

SpecSlices == InitSlices /\ [][Next]_vars

SpecPointers == InitPointers /\ [][Next]_vars

SpecPlain == InitPlain /\ [][Next]_vars

SpecLeafRefs == InitLeafRefs /\ [][Next]_vars

\* Goroutines that share an Option and call Take on it with no lock; the
\* statements of Take interleave.
NextShared ==
    \/ DoSome
    \/ DoNone
    \/ TakeCheck
    \/ TakeRead
    \/ TakeClear
    \/ ExtWrite

SpecShared == InitShared /\ [][NextShared]_vars

\* The detector run call by call on one input.
NextWalk ==
    \/ WalkStart
    \/ WalkStep
    \/ WalkReturn

SpecWalk == InitWalk /\ [][NextWalk]_vars

\* A call that has begun runs on: the goroutine executing isnil is scheduled.
SpecWalkFair == SpecWalk /\ WF_vars(WalkStep)

\* A program that obtains its container from NewOptional and uses it through
\* the Optional interface.
NextNew ==
    \/ DoNewOptional
    \/ DoIsNone
    \/ DoValue
    \/ DoUnwrap
    \/ DoWith
    \/ DoAssign
    \/ DoSwap
    \/ DoTake
    \/ ExtWrite
    \/ WriteAssigned
    \/ WriteTaken

SpecNew == InitNew /\ [][NextNew]_vars

----------------------------------------------------------------------------
TypeOK ==
    /\ T \in Types
    /\ impl \in Impls \cup {"Optional"}
    /\ built \in BOOLEAN
    /\ c.v \in 0..NCells
    /\ ap \in 0..NCells
    /\ tp \in 0..NCells
    /\ \A k \in 1..NCells : cells[k] \in ValuesOf(T)
    /\ \A a \in Addrs : heap[a] \in ValuesOf(CellType(a))

----------------------------------------------------------------------------
\* Properties

\* "Absent" as the documentation uses the word, told from the declared types:
\* a variable of type t holding v is nil, or is a pointer whose chain of
\* dereferences ends in a nil pointer, map, channel, function or interface.
RECURSIVE ChainNil(_, _, _)
ChainNil(t, v, h) ==
    CASE t = "any" -> v.dt = "nil"
      [] t \in LeafRefTypes \cup {"unsafe"} -> v.x = 0
      [] t \in PointerTypes -> v.x = 0 \/ ChainNil(ElemT(t), h[v.x], h)
      [] OTHER -> FALSE

\* An argument x is absent: the nil interface, or (an interface holding) a
\* reference that is absent.
AbsentArg(x, h) == x.dt = "nil" \/ ChainNil(x.dt, x, h)

\* Value() and Unwrap() as evaluated in the current state
ValueNow ==
    CASE IsNone = "panic" -> [st |-> "panic", val |-> Zero(T)]
      [] IsNone = "true" -> [st |-> "err", val |-> Zero(T)]
      [] IsNone = "false" -> [st |-> "ok", val |-> cells[c.v]]

\* C1: an Option built by Some(&p) with p non-nil (T = **int), on which no
\* method but queries has been called since, answers IsNone() with true
\* exactly when the caller's p is nil at that moment: false at first, true
\* after p = nil, false again after p is set back.
C1_TracksInnerPointer ==
    (impl = "Option" /\ T = "**int" /\ hist.origin = "some" /\ hist.quiet
        /\ ret.op = "IsNone")
    => (ret.st = "ok" /\ ret.b = (heap[2].x = 0))

\* C2: Swap(x) on an Option that is absent at call time returns the zero
\* value of T without panicking, stores x, and leaves IsNone() false unless x
\* is itself absent.
C2_SwapOnAbsent ==
    (impl = "Option" /\ ret.op = "Swap" /\ ret.was = "true")
    => /\ ret.st = "ok"
       /\ ret.val = Zero(T)
       /\ c.v # 0
       /\ cells[c.v] = ret.arg
       /\ (IsNone = "false" \/ AbsentArg(ret.arg, heap))

\* C3: for every type T, None[T]() returns an Option without panicking, for
\* which IsNone() is true and Value() returns the zero value of T together
\* with ErrNoneOptional.
C3_NoneForEveryType ==
    (impl = "Option" /\ ret.op = "None")
    => /\ ret.st = "ok"
       /\ built
       /\ IsNone = "true"
       /\ ValueNow = [st |-> "err", val |-> Zero(T)]

C5_SomePanicsIffAbsent ==
    (impl = "Option" /\ ret.op = "Some")
    => /\ (ret.st = "panic") <=> AbsentArg(ret.arg, heap)
       /\ built <=> (ret.st = "ok")
       /\ built => (c.v # 0 /\ cells[c.v] = ret.arg)

C5_Witness ==
    /\ impl = "Option" /\ T = "**int" /\ ret.op = "Some" /\ ret.st = "panic"
    /\ ret.arg.x # 0 /\ ~built

\* The slot holds a slice (T = []int) or a pointer to a slice (T = *[]int).
HoldsSlice ==
    /\ built /\ c.v # 0
    /\ \/ T = "slice"
       \/ T = "*slice" /\ cells[c.v].x # 0

\* C6 as stated: Some / SimpleSome / ChainedSome accept a nil slice and a
\* pointer to a nil slice without panic, and the container then reports
\* IsNone() = false and hands the slice back from Unwrap / Must on every later
\* query, until Take.
C6_SliceAlwaysPresent ==
    /\ (ret.op = "Some" /\ (T = "slice" \/ (T = "*slice" /\ ret.arg.x # 0)))
       => ret.st = "ok"
    /\ (hist.origin = "some" /\ hist.slot = "filled" /\ HoldsSlice)
       => /\ IsNone = "false"
          /\ ret.op = "Unwrap" => (ret.st = "ok" /\ ret.val = cells[c.v])

\* C6 amended: ... on every later query, until Take, as long as no validator
\* installed by Validate returns true for the stored slice.
C6_SlicePresentUnlessRejected ==
    /\ (ret.op = "Some" /\ (T = "slice" \/ (T = "*slice" /\ ret.arg.x # 0)))
       => ret.st = "ok"
    /\ (hist.origin = "some" /\ hist.slot = "filled" /\ HoldsSlice
          /\ (c.validfn = "nil" \/ ~ApplyValid(c.validfn, cells[c.v])))
       => /\ IsNone = "false"
          /\ ret.op = "Unwrap" => (ret.st = "ok" /\ ret.val = cells[c.v])

C6_Witness ==
    /\ T = "*slice" /\ heap[6].x = 0 /\ hist.origin = "some" /\ hist.quiet
    /\ ret.op = "Unwrap" /\ ret.st = "ok" /\ ret.val.x = 6

\* C7: Take on an Option for which IsNone() is true returns (nil,
\* ErrNoneOptional) and leaves every field and the stored value unchanged, so
\* that repeating it gives the same result; once a holder of an alias has
\* restored the stored reference, Take hands it out.
C7_TakeOnNoneChangesNothing ==
    [][ /\ (impl = "Option" /\ built /\ ret'.op = "Take" /\ IsNone = "true")
           => /\ ret'.st = "err" /\ ret'.p = 0
              /\ c' = c /\ cells' = cells /\ tp' = tp
              /\ IsNone' = "true"
        /\ (impl = "Option" /\ ret'.op = "Take" /\ ret'.st = "ok" /\ hist'.refused)
           => (ret'.p = c.v /\ c.v # 0 /\ tp' = c.v /\ cells'[tp'] = cells[c.v])
      ]_vars

C7_Witness ==
    /\ impl = "Option" /\ T = "*int" /\ hist.refused /\ c.validfn = "nil"
    /\ ret.op = "Take" /\ ret.st = "ok" /\ tp # 0 /\ cells[tp].x # 0

\* C8: Take on a present container returns a pointer to the value that was
\* stored, and from then on IsNone() is true and Value() returns
\* ErrNoneOptional, whatever the caller writes, until the next Swap.
C8_TakeEmptiesTheSlot ==
    [][ /\ (built /\ ret'.op = "Take" /\ IsNone = "false")
           => /\ ret'.st = "ok" /\ c.v # 0 /\ ret'.p = c.v
              /\ cells'[ret'.p] = cells[c.v]
        /\ (hist'.slot = "taken")
           => (IsNone' = "true" /\ ValueNow' = [st |-> "err", val |-> Zero(T)])
      ]_vars

C8_Witness ==
    /\ impl = "Option" /\ T = "**int" /\ hist.slot = "taken" /\ tp # 0
    /\ heap[2].x = 0 /\ ret.op = "Value" /\ ret.st = "err"

\* C9: after Swap(x) on an Option of a reference type, where x is absent, the
\* slot holds x and the next IsNone() returns true.
C9_SwapOfAbsentReportsNone ==
    (impl = "Option" /\ T \in PointerTypes \cup LeafRefTypes
        /\ ret.op = "Swap" /\ ret.st = "ok" /\ AbsentArg(ret.arg, heap))
    => (c.v # 0 /\ cells[c.v] = ret.arg /\ IsNone = "true")

\* C10: Swap(x) on a container that is present at call time returns exactly
\* the value stored before the call; afterwards, for a non-absent x, Value()
\* returns (x, nil) and a second Swap(y) returns x.  (Stated for an Option
\* with no validator installed.)
C10_SwapReturnsPrevious ==
    [][ /\ (impl = "Option" /\ built /\ ret'.op = "Swap" /\ IsNone = "false")
           => (ret'.st = "ok" /\ ret'.val = cells[c.v])
        /\ (impl = "Option" /\ c.validfn = "nil" /\ ret.op = "Swap" /\ ret.st = "ok"
              /\ ret.was = "false" /\ ~AbsentArg(ret.arg, heap)
              /\ ret'.op \in {"Value", "Swap"})
           => (ret'.st = "ok" /\ ret'.val = ret.arg)
      ]_vars

\* C11: Value() returns (stored value, nil) exactly when IsNone() evaluated
\* at the same instant is false, and otherwise returns (zero value of T,
\* ErrNoneOptional); in neither case does it change the Option.
C11_ValueFollowsIsNone ==
    [][ (impl = "Option" /\ built /\ ret'.op = "Value")
        => /\ (IsNone = "false") => (ret'.st = "ok" /\ ret'.val = cells[c.v])
           /\ (IsNone # "false") => (ret'.st = "err" /\ ret'.val = Zero(T))
           /\ c' = c /\ cells' = cells
      ]_vars

\* C12: Unwrap() panics with ErrNoneOptional exactly when IsNone() is true at
\* call time, which is when the slot is empty or the stored reference's chain
\* currently resolves to nil, and otherwise returns the stored value.  (Stated
\* for an Option with no validator installed.)
C12_UnwrapPanicsIffNone ==
    [][ (impl = "Option" /\ built /\ c.validfn = "nil" /\ ret'.op = "Unwrap")
        => /\ (ret'.st = "panic" /\ ret'.msg = "ErrNoneOptional") <=> (IsNone = "true")
           /\ (IsNone = "true") <=> (c.v = 0 \/ AbsentArg(cells[c.v], heap))
           /\ (IsNone # "true") => (ret'.st = "ok" /\ ret'.val = cells[c.v])
      ]_vars

\* C13: round trip.  For every plain value v (int, slice, struct),
\* Some(v).Unwrap() equals v and Some(v).Value() returns (v, nil); likewise
\* the value given to the last Swap is what Unwrap and Value return, so after
\* Swap(w) and Swap(v) they return v again.
C13_RoundTrip ==
    [][ (impl = "Option" /\ T \in ValueTypes /\ c.validfn = "nil"
            /\ ret.op \in {"Some", "Swap"} /\ ret.st = "ok"
            /\ ret'.op \in {"Value", "Unwrap"})
        => (ret'.st = "ok" /\ ret'.val = ret.arg)
      ]_vars

C13_Witness ==
    /\ impl = "Option" /\ T = "int" /\ hist.origin = "some" /\ hist.quiet
    /\ ret.op = "Unwrap" /\ ret.st = "ok" /\ ret.val = Val("int", 1)

\* C14: in any Option state, With(f) invokes f exactly when IsNone() is
\* false, handing it the value Value() would return at that instant, and
\* WithNone(g) invokes g exactly when IsNone() is true; so of a With and a
\* WithNone called back to back exactly one callback runs.
C14_ExactlyOneCallback ==
    [][ /\ (impl = "Option" /\ built /\ ret'.op = "With")
           => /\ ret'.b <=> (IsNone = "false")
              /\ ret'.b => (ValueNow.st = "ok" /\ ret'.val = ValueNow.val)
        /\ (impl = "Option" /\ built /\ ret'.op = "WithNone")
           => (ret'.b <=> (IsNone = "true"))
        /\ (impl = "Option" /\ ret.op = "With" /\ ret'.op = "WithNone")
           => (ret.b # ret'.b)
      ]_vars

\* The Option is absent: its slot is empty, or the stored value is absent.
SlotAbsent == c.v = 0 \/ AbsentArg(cells[c.v], heap)

\* C15: Assign(p) on an absent Option returns false and leaves *p as it was;
\* on a present Option it returns true and afterwards **p equals the stored
\* value; in both cases the Option itself is unchanged.  (Stated for an
\* Option with no validator installed.)
C15_AssignOnlyWhenPresent ==
    [][ (impl = "Option" /\ built /\ c.validfn = "nil" /\ ret'.op = "Assign")
        => /\ SlotAbsent => (ret'.st = "ok" /\ ~ret'.b /\ ap' = ap)
           /\ ~SlotAbsent => (ret'.st = "ok" /\ ret'.b /\ ap' # 0
                                /\ cells'[ap'] = cells[c.v])
           /\ c' = c
           /\ c.v # 0 => cells'[c.v] = cells[c.v]
      ]_vars

\* C16: the classification of an Option (ptrtyp and track) is fixed when Some
\* or None returns: no call of IsNone, Value, Unwrap, Swap, Take, With,
\* WithNone, Assign or Validate, and no write by the caller, changes it.
C16_ClassificationFixed ==
    [][ (impl = "Option" /\ built)
        => (built' /\ c'.ptrtyp = c.ptrtyp /\ c'.track = c.track)
      ]_vars

C16_Witness ==
    /\ impl = "Option" /\ T = "**int" /\ hist.origin = "some"
    /\ c.ptrtyp /\ c.track
    /\ hist.slot = "taken" /\ c.validfn # "nil" /\ heap[2].x = 0 /\ ap # 0
    /\ ret.op = "WithNone" /\ ret.b

\* C17: a container built empty (None[T]() / ChainedNone[T]()) carries the
\* same classification as one built with a value of type T; so an empty
\* container of type **int later populated by Swap(&p) tracks p: once p is
\* nil, IsNone() is true.
C17_NoneClassifiedLikeSome ==
    (impl \in {"Option", "Chained"} /\ built /\ hist.origin = "none")
    => /\ \A v \in ValuesOf(T) :
            ~CtorSomePanics(impl, v, heap)
            => CtorSomeFields(impl, v, heap) = [ptrtyp |-> c.ptrtyp, track |-> c.track]
       /\ (T = "**int" /\ hist.slot = "filled" /\ c.v # 0 /\ cells[c.v].x # 0
              /\ heap[2].x = 0)
          => IsNone = "true"

\* C18: for a Chained built by ChainedSome over nested pointers of depth two
\* or more (**int, ***int), with no method but queries called since, IsNone()
\* returns true exactly when some link of the chain is nil at that moment, and
\* Value() fails exactly then: nil-ing an inner link makes the next IsNone()
\* true, restoring it makes IsNone() false again.
C18_ChainedTracksEveryLink ==
    (impl = "Chained" /\ T \in {"**int", "***int"} /\ built
        /\ hist.origin = "some" /\ hist.quiet)
    => /\ c.v # 0
       /\ IsNone = (IF ChainNil(T, cells[c.v], heap) THEN "true" ELSE "false")
       /\ ret.op = "IsNone"
          => (ret.st = "ok" /\ ret.b = ChainNil(T, cells[c.v], heap))
       /\ ret.op = "Value"
          => IF ChainNil(T, cells[c.v], heap)
             THEN ret.st = "err" /\ ret.val = Zero(T)
             ELSE ret.st = "ok" /\ ret.val = cells[c.v]

C18_Witness ==
    /\ impl = "Chained" /\ T = "***int" /\ hist.origin = "some" /\ hist.quiet
    /\ cells[c.v].x # 0 /\ heap[3].x # 0 /\ heap[2].x = 0
    /\ ret.op = "IsNone" /\ ret.b

\* C19: an Option holding a single pointer to a plain value or a struct is
\* not tracking, and IsNone() looks at the stored pointer only: built by Some
\* with a non-nil pointer, and with no method but queries called since, it
\* stays false whatever is written to the pointed-to data, a pointer field of
\* the pointed-to struct set to nil included.
C19_SinglePointerStaysPresent ==
    (impl = "Option" /\ T \in {"*int", "*slice", "*struct"} /\ built
        /\ hist.origin = "some" /\ hist.quiet)
    => /\ ~c.track
       /\ IsNone = "false"
       /\ ret.op = "IsNone" => (ret.st = "ok" /\ ~ret.b)

C19_Witness ==
    /\ impl = "Option" /\ T = "*struct" /\ hist.origin = "some" /\ hist.quiet
    /\ cells[c.v].x = 7 /\ heap[7].x = 0
    /\ ret.op = "IsNone" /\ ret.st = "ok" /\ ~ret.b

\* C20: a Simple built by SimpleSome(&p) with p non-nil reports IsNone() =
\* false, and still does after the caller sets p to nil: the verdict of a
\* Simple over a pointer type depends only on whether the slot is filled and
\* the stored top-level pointer is nil, never on deeper links.
C20_SimpleIgnoresInnerLinks ==
    (impl = "Simple" /\ built)
    => /\ IsNone = (IF c.v = 0 \/ cells[c.v].x = 0 THEN "true" ELSE "false")
       /\ (T = "**int" /\ hist.origin = "some" /\ hist.quiet)
          => /\ IsNone = "false"
             /\ ret.op = "IsNone" => (ret.st = "ok" /\ ~ret.b)

C20_Witness ==
    /\ impl = "Simple" /\ T = "**int" /\ hist.origin = "some" /\ hist.quiet
    /\ cells[c.v].x = 2 /\ heap[2].x = 0
    /\ ret.op = "IsNone" /\ ret.st = "ok" /\ ~ret.b

\* C21: for T a value type or a single pointer to a value type, Chained and
\* Simple behave the same.  In every state either of them reaches, the two
\* constructors panic on the same arguments and build the same fields, and
\* IsNone and Swap of the two types give the same verdict, panic and return
\* value; Value, Must, Take, With and Assign are the same code over IsNone.
\* So the same sequence of calls and writes takes both through the same
\* states with the same results.
C21_ChainedSimpleAgree ==
    (impl \in {"Chained", "Simple"} /\ T \in ValueTypes \cup SinglePointerTypes)
    => /\ \A v \in ValuesOf(T) :
            /\ ChainedSomePanics(v, heap) = SimpleSomePanics(v, heap)
            /\ ChainedSomeFields(v, heap) = SimpleSomeFields(v, heap)
       /\ ChainedNonePanics(T, heap) = SimpleNonePanics(T, heap)
       /\ ChainedNoneFields(T, heap) = SimpleNoneFields(T, heap)
       /\ built
          => /\ ChainedIsNone(c, cells, heap) = SimpleIsNone(c, cells, heap)
             /\ ChainedSwapPanics(c, cells, heap) = SimpleSwapPanics(c, cells, heap)
             /\ ChainedSwapReturn(c, cells, heap) = SimpleSwapReturn(c, cells, heap)

C21_Witness ==
    /\ impl = "Chained" /\ T = "*int" /\ hist.origin = "none"
    /\ c.v # 0 /\ cells[c.v].x = 0 /\ heap[1].x = 0 /\ tp # 0
    /\ ret.op = "Value" /\ ret.st = "err"

\* C22: NewOptional(v) never panics for a typed v (anything but the nil
\* interface) and returns a container whose IsNone() is true exactly when v
\* is a nil pointer, map, channel or function, or a pointer whose chain
\* reaches nil; value types and nil slices give a container with IsNone()
\* false whose Must() returns v.
C22_NewOptionalVerdict ==
    (ret.op = "NewOptional" /\ ret.arg.dt # "nil")
    => /\ ret.st = "ok" /\ built
       /\ IsNone = (IF AbsentArg(ret.arg, heap) THEN "true" ELSE "false")
       /\ ret.arg.dt \in ValueTypes
          => (IsNone = "false" /\ ValueNow = [st |-> "ok", val |-> ret.arg])

\* v is a pointer whose immediate target is itself reference-like
DeepTarget(v) == Kind(v.dt) = "Pointer" /\ isptrkind(Kind(ElemT(v.dt)))

\* C23: NewOptional(v) performs the classification of the type classifier: it
\* returns a Chained for every v that is a pointer to a pointer, interface,
\* map, channel or function, and a Simple for every other v.
C23_NewOptionalClassifies ==
    (ret.op = "NewOptional" /\ ret.st = "ok")
    => /\ impl \in {"Chained", "Simple"}
       /\ (impl = "Chained") <=> DeepTarget(ret.arg)

\* C24 as stated: a container that holds a non-nil channel reports IsNone()
\* = false on every query until Take or Swap, and With / Must / Unwrap / Value
\* hand back the identical channel.
C24_ChannelAlwaysPresent ==
    [][ (T = "chan" /\ built /\ c.v # 0 /\ cells[c.v].x # 0)
        => /\ IsNone = "false"
           /\ ret'.op \in {"With", "Unwrap", "Value"}
              => /\ ret'.st = "ok" /\ ret'.val = cells[c.v]
                 /\ ret'.op = "With" => ret'.b
           /\ ret'.op \notin {"Take", "Swap", "alias", "taken"}
              => (c'.v # 0 /\ cells'[c'.v] = cells[c.v])
      ]_vars

\* C24 amended: ... as long as no validator installed on an Option by
\* Validate returns true for the channel.
C24_ChannelPresentUnlessRejected ==
    [][ (T = "chan" /\ built /\ c.v # 0 /\ cells[c.v].x # 0
            /\ (c.validfn = "nil" \/ ~ApplyValid(c.validfn, cells[c.v])))
        => /\ IsNone = "false"
           /\ ret'.op \in {"With", "Unwrap", "Value"}
              => /\ ret'.st = "ok" /\ ret'.val = cells[c.v]
                 /\ ret'.op = "With" => ret'.b
           /\ ret'.op \notin {"Take", "Swap", "alias", "taken"}
              => (c'.v # 0 /\ cells'[c'.v] = cells[c.v])
      ]_vars

C24_Witness ==
    /\ impl = "Simple" /\ T = "chan" /\ hist.origin = "some" /\ hist.quiet
    /\ ret.op = "With" /\ ret.b /\ ret.val = Val("chan", 2) /\ ap # 0

\* C25: the Option has no lock.  When several goroutines call Take on the
\* same present Option, they can all pass the IsNone check before any of them
\* clears the slot; then each returns a nil error, the slot ends empty, and
\* every pointer handed out is the one stored pointer: the value is moved out
\* more than once.
C25_TakeMovesOutTwice ==
    /\ \A t \in Threads :
          (thr[t].pc = "read" /\ c.v # 0) => thr[t].p = c.v
    /\ \A t \in Threads : \A u \in Threads \ {t} :
          (thr[t].pc = "done" /\ thr[t].st = "ok" /\ thr[u].pc = "done" /\ thr[u].st = "ok")
          => /\ c.v = 0
             /\ \E w \in Threads : thr[w].pc = "done" /\ thr[w].st = "ok" /\ thr[w].p # 0
             /\ (thr[t].p # 0 /\ thr[u].p # 0)
                => (thr[t].p = thr[u].p /\ hist.origin = "some")

C25_Witness ==
    /\ impl = "Option" /\ T = "int" /\ ret.op = "Some"
    /\ thr[1].pc = "done" /\ thr[1].st = "ok" /\ thr[1].p # 0
    /\ thr[2].pc = "done" /\ thr[2].st = "ok" /\ thr[2].p = thr[1].p

\* C26: for every chain of pointers ending in a pointer, map, channel,
\* function, slice or plain value, isnil(v) is true exactly when following
\* the pointers from v reaches a nil pointer, map, channel or function, and
\* false when the walk ends at a slice (nil or not), a struct or another
\* plain value.
C26_IsNilFollowsChain ==
    (T \notin {"any", "*any", "unsafe"})
    => \A v \in ValuesOf(T) :
          /\ isnil(ValueOf(v), heap) = ChainNil(T, v, heap)
          /\ T \in ValueTypes \cup {"*int", "*slice", "*struct"}
             => (isnil(ValueOf(v), heap) = (Kind(T) = "Pointer" /\ v.x = 0))

C26_Witness ==
    /\ T = "***int" /\ heap[3].x # 0 /\ heap[2].x = 0
    /\ ret.op = "Some" /\ ret.st = "panic" /\ ret.msg = "nil pointer" /\ ret.arg.x # 0

\* C27: the detector recurses through an interface.  For a pointer to an
\* interface variable, isnil reports absence, and an Option storing the
\* pointer is none, when the interface holds no value and also when it holds
\* a reference that is itself absent (a nil pointer, or a pointer whose chain
\* reaches nil).
C27_RecursesThroughInterface ==
    (impl = "Option" /\ T = "*any")
    => /\ \A v \in ValuesOf(T) :
            (v.x # 0 /\ AbsentArg(heap[v.x], heap)) => isnil(ValueOf(v), heap)
       /\ (built /\ c.v # 0 /\ cells[c.v].x # 0
             /\ AbsentArg(heap[cells[c.v].x], heap))
          => IsNone = "true"


\* The non-nil pointers on the chain that starts at a variable of type t
\* holding v.
RECURSIVE Links(_, _, _)
Links(t, v, h) ==
    IF Kind(t) = "Pointer" /\ v.x # 0 THEN 1 + Links(ElemT(t), h[v.x], h) ELSE 0

\* The argument of the running isnil is a pointer of the recursive type that
\* leads back to itself.
CyclicInput == T = "P" /\ ret.arg.x # 0 /\ heap[ret.arg.x].x # 0

\* C28: on an acyclic chain isnil returns, after at most one recursive call
\* per non-nil pointer on the chain, with the verdict the recursive
\* definition gives; on a pointer that leads back to itself the recursion
\* never returns.
C28_TerminatesIffAcyclic ==
    /\ []((walk.st # "idle" /\ ~CyclicInput)
            => /\ walk.calls <= Links(T, ret.arg, heap) + 1
               /\ walk.st \in {"true", "false"}
                    => /\ walk.calls = Links(T, ret.arg, heap) + 1
                       /\ (walk.st = "true") = isnil(ValueOf(ret.arg), heap))
    /\ []((walk.st = "run" /\ ~CyclicInput) => <>(walk.st \in {"true", "false"}))
    /\ []((walk.st = "run" /\ CyclicInput) => [](walk.st = "run"))

C28_Witness ==
    /\ T = "***int"
    /\ walk.st = "false"
    /\ walk.calls = 4
    /\ Links(T, ret.arg, heap) = 3

\* C29: with a validator f installed, IsNone() is true whenever f returns
\* true for the stored value, and f is called neither on an empty slot nor
\* on a stored reference that is nil or whose chain reaches nil.
C29_ValidatorAfterNilChecks ==
    (impl = "Option" /\ built /\ c.validfn # "nil")
    => /\ (c.v # 0 /\ ApplyValid(c.validfn, cells[c.v])) => IsNone = "true"
       /\ ValidfnCalled(c, cells, heap) => ~SlotAbsent

\* C30 as stated: an Option over unsafe.Pointer has ptrtyp set and track
\* clear; Some refuses exactly the nil address; while the slot is filled
\* IsNone() is true exactly when the stored address is nil; and a step that
\* leaves the Option alone (a write to the variable behind the pointer)
\* leaves the verdict alone.
C30_UnsafeShallow ==
    [][ (impl = "Option" /\ T = "unsafe")
        => /\ ret'.op = "Some" => ((ret'.st = "panic") <=> (ret'.arg.x = 0))
           /\ built' => (c'.ptrtyp /\ ~c'.track)
           /\ (built' /\ c'.v # 0)
              => (IsNoneOf(impl', c', cells', heap') = "true" <=> cells'[c'.v].x = 0)
           /\ (built /\ c' = c /\ cells' = cells)
              => IsNoneOf(impl', c', cells', heap') = IsNone
      ]_vars

\* C30 amended: ... absent exactly when the raw address is nil, as long as
\* no validator installed by Validate returns true for the pointer.
C30_UnsafeShallowUnlessRejected ==
    [][ (impl = "Option" /\ T = "unsafe")
        => /\ ret'.op = "Some" => ((ret'.st = "panic") <=> (ret'.arg.x = 0))
           /\ built' => (c'.ptrtyp /\ ~c'.track)
           /\ (built' /\ c'.v # 0)
              => /\ IsNoneOf(impl', c', cells', heap') \in {"true", "false"}
                 /\ (c'.validfn = "nil" \/ ~ApplyValid(c'.validfn, cells'[c'.v]))
                    => (IsNoneOf(impl', c', cells', heap') = "true" <=> cells'[c'.v].x = 0)
           /\ (built /\ c' = c /\ cells' = cells)
              => IsNoneOf(impl', c', cells', heap') = IsNone
      ]_vars

C30_Witness ==
    /\ impl = "Option" /\ T = "unsafe" /\ hist.origin = "some"
    /\ c.v # 0 /\ cells[c.v].x # 0 /\ heap[cells[c.v].x].x = 0
    /\ ret.op = "ext" /\ ret.was = "false" /\ IsNone = "false"

\* No link of the chain that starts at x is nil, an interface on the chain
\* and what it holds included.
EveryLinkNonNil(x, h) ==
    /\ ~AbsentArg(x, h)
    /\ x.dt = "*any" => ~AbsentArg(h[x.x], h)

\* C31: an Option with no validator whose slot is filled with a value whose
\* chain is non-nil at every link answers IsNone() with false, Value()
\* returns the value and Unwrap() does not panic.
C31_NoFalseAbsence ==
    (impl = "Option" /\ built /\ c.validfn = "nil" /\ c.v # 0
        /\ EveryLinkNonNil(cells[c.v], heap))
    => /\ IsNone = "false"
       /\ ValueNow.st = "ok" /\ ValueNow.val = cells[c.v]

\* C32: IsNone, Value, Unwrap, With, WithNone and Assign leave the slot
\* pointer, the stored value, the classification and the validator as they
\* were, and with them the verdict; IsNone() returns that verdict, so a second
\* IsNone() directly after a first ends the same way with the same answer.
C32_QueriesReadOnly ==
    [][ (built /\ ret'.op \in {"IsNone", "Value", "Unwrap", "With", "WithNone", "Assign"})
        => /\ c' = c
           /\ c.v # 0 => cells'[c.v] = cells[c.v]
           /\ heap' = heap
           /\ IsNoneOf(impl', c', cells', heap') = IsNone
           /\ (ret'.op = "IsNone" /\ ret'.st = "ok") => (ret'.b <=> (IsNone = "true"))
           /\ (ret'.op = "IsNone" /\ ret.op = "IsNone")
              => (ret'.st = ret.st /\ ret'.b = ret.b)
      ]_vars

C32_Witness ==
    /\ impl = "Option" /\ T = "**int" /\ built /\ c.v # 0
    /\ ret.op = "Assign" /\ ret.b /\ ap = c.v
    /\ cells[c.v].x # 0 /\ c.validfn # "nil"

\* C33: with no validator installed, a successful Assign hands out the
\* Option's own cell; a write of a value w with no nil link through that
\* pointer makes Value() return w; Swap(x) installs another cell, leaves the
\* cell of the assigned pointer as it was, and for x with no nil link makes
\* Value() return x.
C33_AssignAliasesCell ==
    [][ (impl = "Option" /\ built /\ c.validfn = "nil")
        => /\ (ret'.op = "Assign" /\ ret'.b) => (ap' = c.v /\ c.v # 0)
           /\ (ret'.op = "alias" /\ ap = c.v /\ EveryLinkNonNil(cells'[ap], heap))
              => (ValueNow'.st = "ok" /\ ValueNow'.val = cells'[ap])
           /\ (ret'.op = "Swap" /\ ret'.st = "ok" /\ ap # 0)
              => /\ c'.v # ap
                 /\ cells'[ap] = cells[ap]
                 /\ EveryLinkNonNil(ret'.arg, heap)
                    => (ValueNow'.st = "ok" /\ ValueNow'.val = ret'.arg)
      ]_vars

\* C34: the pointer a successful Take returned does not point at the cell
\* the container uses afterwards.  A write through it leaves the container's
\* fields and stored value as they were, and with them what IsNone, Value
\* and Swap would do; a Swap on the container leaves the pointer and the
\* value read through it as they were.
C34_TakenPointerDetached ==
    [][ (built /\ tp # 0)
        => /\ c.v # tp
           /\ ret'.op = "taken"
              => /\ c' = c
                 /\ c.v # 0 => cells'[c.v] = cells[c.v]
                 /\ IsNoneOf(impl', c', cells', heap') = IsNone
                 /\ ValueNow' = ValueNow
                 /\ SwapPanics(impl', c', cells', heap') = SwapPanics(impl, c, cells, heap)
                 /\ ~SwapPanics(impl, c, cells, heap)
                    => SwapReturn(impl', c', cells', heap') = SwapReturn(impl, c, cells, heap)
           /\ ret'.op = "Swap"
              => (tp' = tp /\ cells'[tp] = cells[tp] /\ c'.v # tp)
      ]_vars

C34_Witness ==
    /\ impl = "Option" /\ T = "*int" /\ hist.origin = "some"
    /\ tp # 0 /\ c.v = 0 /\ cells[tp].x = 0
    /\ ret.op = "taken" /\ ret.was = "true"

\* The installed validator returns true for the stored value.
Rejected(o, cs) == o.v # 0 /\ o.validfn # "nil" /\ ApplyValid(o.validfn, cs[o.v])

\* C35: only Validate changes the validator, so it is the one applied to the
\* value a later Swap stores; while it rejects the stored value the Option
\* does not report a value: Value and Take do not return one, Assign makes no
\* assignment, With does not run its closure, and the slot stays filled.
C35_ValidatorStaysInForce ==
    [][ (impl = "Option" /\ built)
        => /\ ret'.op # "Validate" => c'.validfn = c.validfn
           /\ (ret'.op = "Swap" /\ ret'.st = "ok" /\ c.validfn # "nil"
                 /\ ApplyValid(c.validfn, ret'.arg))
              => (Rejected(c', cells') /\ IsNoneOf(impl', c', cells', heap') # "false")
           /\ Rejected(c, cells)
              => /\ IsNone # "false"
                 /\ ret'.op \in {"Value", "Take"} => ret'.st # "ok"
                 /\ ret'.op \in {"Assign", "With"} => ~ret'.b
                 /\ ret'.op = "Assign" => ap' = ap
                 /\ ret'.op \in {"Value", "Take", "Assign", "With"}
                    => (c' = c /\ cells'[c.v] = cells[c.v])
      ]_vars

C35_Witness ==
    /\ impl = "Option" /\ T = "int" /\ hist.origin = "some" /\ ~hist.quiet
    /\ c.validfn = "zero" /\ c.v # 0 /\ cells[c.v].x = 0
    /\ ret.op = "Swap" /\ ret.st = "ok" /\ ret.was = "false" /\ ret.arg.x = 0
    /\ IsNone = "true"
====
